---- MODULE Spec2Model ----
(***************************************************************************)
(* A model of the dental-product scraper (LePisons/dentalscraper):         *)
(*   - AdaptiveConcurrency and RequestQueue (src/src/scraper.js 66-140),   *)
(*     at the granularity of the JavaScript job (microtask) queue;         *)
(*   - runScraper and scrapeProductsForDomain (src/src/scraper.js 155-263, *)
(*     565-690);                                                           *)
(*   - DataProcessor.processAndStoreProduct and its store calls            *)
(*     (src/src/db/dataProcessor.js 316-484).                              *)
(***************************************************************************)
EXTENDS Integers, Sequences, FiniteSets, TLC

VARIABLES
  \* AdaptiveConcurrency fields
  currentConcurrent, errorCount, successCount, lastAdjustment,
  \* Date.now()
  clock,
  \* RequestQueue fields
  queue, running,
  \* the job queue: continuations of awaits, run first-in first-out
  microtasks,
  \* per task handed to RequestQueue.add: position of the add() call, how
  \* the task's promise settled, and what the caller of add() received
  st, outcome, seen,
  \* number of add() calls made so far
  adds,
  \* the store: products rows (current_price by site and url), price_history
  \* rows in insertion order, scraping_logs rows in insertion order
  products, history, logs,
  \* processAndStoreProduct as its caller sees it: the last call made and
  \* whether it returned, and the number of calls made so far
  lastCall, calls,
  \* runScraper: the URL batch of each domain, the place reached, the domain
  \* being processed and the error caught for it
  batch, pc, dom, failure,
  \* scrapeProductsForDomain: the index of the URL being processed, the
  \* locals of its retry loop, the result list, the browsers left open,
  \* the page.goto calls made and the error last thrown for the current URL
  idx, retryCount, success, results, browserOpen, gotoCount, thrown,
  \* whether the inter-request delay was awaited before the current URL
  delayed,
  \* runScraper, storing the results of a domain: the index of the record
  \* being stored and the tallies of the scrape-log entry
  sj, domSuccessCount, domErrorCount, errorDetails,
  \* the extractors: the loaded page, the record the extractor returns for it
  \* and the record normalizeProductData makes of that
  page, productData, normalizedProduct,
  \* cleanPrice: its argument and what it returned
  priceText, cleaned,
  \* runScraper, resolving SITEMAPS: the sitemaps as the network serves them,
  \* the index of the sitemap resolved next, the list each call of
  \* getProductUrlsFromSitemap returned, and the URLs collected
  sitemaps, si, found, allProductUrls,
  \* isProductPage: the signals present on the loaded page, and the signals
  \* and the verdict of each call made on it
  signals, verdicts,
  \* detectProductCategories: the text searched and the list returned
  searchText, detectedCategories,
  \* scheduler.js: the place reached, and for each call of runScraper (0 the
  \* call at the end of scraper.js, 1 the initial run, 2.. the interval runs)
  \* whether it has not started, is in progress or has finished
  scheduler, runs

gvars == <<currentConcurrent, errorCount, successCount, lastAdjustment, clock>>
qvars == <<queue, running, microtasks, st, outcome, seen, adds>>
svars == <<products, history, logs, lastCall, calls>>
rvars == <<batch, pc, dom, failure, idx, retryCount, success, results,
           browserOpen, gotoCount, thrown, sj, domSuccessCount,
           domErrorCount, errorDetails, delayed>>
evars == <<page, productData, normalizedProduct, priceText, cleaned>>
cvars == <<sitemaps, si, found, allProductUrls, signals, verdicts,
           searchText, detectedCategories, scheduler, runs>>

----------------------------------------------------------------------------
\* Bounds of the model

MaxAdds == 6
MaxClock == 30000
MaxGovernorClock == 120000
TickMs == 30000
MaxSuccesses == 12
MaxErrors == 7
MaxPending == 2
MaxUrls == 2
MaxCalls == 3
MaxPriceLen == 3
MaxTextLen == 4
MaxPathLen == 3
MaxSearchLen == 5
MaxIntervalRuns == 5

\* Program constants

InitialConcurrent == 4
MaxConcurrent == 8
MinConcurrent == 2
AdjustWindow == 30000
ErrorThreshold == 5
SuccessThreshold == 10

\* enough callers of add() to fill the lowest bound and keep two of them waiting
NTasks == MinConcurrent + 2
Tasks == 1..NTasks
\* what task t throws when it fails
ErrorOf(t) == IF t % 2 = 1 THEN "e1" ELSE "e2"
Outcomes(t) == {"ok", ErrorOf(t)}
\* ResourceMonitor.checkSystemResources: true, false, or a rejected promise
\* (require is not defined when the file is loaded as an ES module)
Probe == {"ok", "pressure", "throws"}

Max(a, b) == IF a >= b THEN a ELSE b
Min(a, b) == IF a <= b THEN a ELSE b

NoTask == 0
Job(kind, task, now, probe) ==
  [kind |-> kind, task |-> task, now |-> now, probe |-> probe]
AdjustJob(now, probe) == Job("adjust", NoTask, now, probe)
ResumeJob(t) == Job("resume", t, 0, "ok")
ContJob(t) == Job("cont", t, 0, "ok")
SettleJob(t) == Job("settle", t, 0, "ok")

----------------------------------------------------------------------------
\* AdaptiveConcurrency

\* adjust(), up to its await: the window check, then the resource probe
AdjustCall(jobs, probe) ==
  IF clock - lastAdjustment < AdjustWindow
    THEN jobs
    ELSE Append(jobs, AdjustJob(clock, probe))

\* adjust() without the floor of Math.max(2, ...)
AdjustedLimitNoFloor(probe) ==
  IF probe # "ok" \/ errorCount > ErrorThreshold
    THEN currentConcurrent - 1
    ELSE IF errorCount = 0 /\ successCount > SuccessThreshold /\ probe = "ok"
      THEN Min(MaxConcurrent, currentConcurrent + 1)
      ELSE currentConcurrent

\* adjust() without the ceiling of Math.min(this.maxConcurrent, ...)
AdjustedLimitNoCeiling(probe) ==
  IF probe # "ok" \/ errorCount > ErrorThreshold
    THEN Max(MinConcurrent, currentConcurrent - 1)
    ELSE IF errorCount = 0 /\ successCount > SuccessThreshold /\ probe = "ok"
      THEN currentConcurrent + 1
      ELSE currentConcurrent

\* the bound adjust() computes after the probe has answered
AdjustedLimit(probe) ==
  IF probe # "ok" \/ errorCount > ErrorThreshold
    THEN Max(MinConcurrent, currentConcurrent - 1)
    ELSE IF errorCount = 0 /\ successCount > SuccessThreshold /\ probe = "ok"
      THEN Min(MaxConcurrent, currentConcurrent + 1)
      ELSE currentConcurrent

AdjustedErrorCount(probe) ==
  IF probe # "ok" \/ errorCount > ErrorThreshold THEN 0 ELSE errorCount

\* adjust(), after its await
AdjustResume ==
  /\ microtasks # <<>>
  /\ Head(microtasks).kind = "adjust"
  /\ LET j == Head(microtasks) IN
       IF j.probe = "throws"
         THEN UNCHANGED <<currentConcurrent, errorCount, successCount,
                          lastAdjustment>>
         ELSE /\ currentConcurrent' = AdjustedLimit(j.probe)
              /\ errorCount' = AdjustedErrorCount(j.probe)
              /\ successCount' = 0
              /\ lastAdjustment' = j.now
  /\ microtasks' = Tail(microtasks)
  /\ UNCHANGED <<clock, queue, running, st, outcome, seen, adds>>
  /\ UNCHANGED <<svars, rvars, evars, cvars>>

\* recordSuccess() called on the governor directly
RecordSuccess ==
  /\ successCount < MaxSuccesses
  /\ Len(microtasks) < MaxPending
  /\ \E p \in Probe :
       /\ successCount' = successCount + 1
       /\ microtasks' = AdjustCall(microtasks, p)
  /\ UNCHANGED <<currentConcurrent, errorCount, lastAdjustment, clock,
                 queue, running, st, outcome, seen, adds>>
  /\ UNCHANGED <<svars, rvars, evars, cvars>>

\* recordError() called on the governor directly
RecordError ==
  /\ errorCount < MaxErrors
  /\ Len(microtasks) < MaxPending
  /\ \E p \in Probe :
       /\ errorCount' = errorCount + 1
       /\ microtasks' = AdjustCall(microtasks, p)
  /\ UNCHANGED <<currentConcurrent, successCount, lastAdjustment, clock,
                 queue, running, st, outcome, seen, adds>>
  /\ UNCHANGED <<svars, rvars, evars, cvars>>

\* time passes
Advance(limit) ==
  /\ clock + TickMs <= limit
  /\ clock' = clock + TickMs
  /\ UNCHANGED <<currentConcurrent, errorCount, successCount, lastAdjustment,
                 queue, running, microtasks, st, outcome, seen, adds>>
  /\ UNCHANGED <<svars, rvars, evars, cvars>>

Tick == Advance(MaxClock)
GovernorTick == Advance(MaxGovernorClock)

----------------------------------------------------------------------------
\* RequestQueue

\* add(task), up to the call of task(): wait when the bound is reached
Add(t) ==
  /\ st[t] \in {"idle", "delivered"}
  /\ st[t] = "idle" => \A u \in Tasks : u < t => st[u] # "idle"
  /\ adds < MaxAdds
  /\ adds' = adds + 1
  /\ outcome' = [outcome EXCEPT ![t] = "none"]
  /\ seen' = [seen EXCEPT ![t] = "none"]
  /\ IF running >= currentConcurrent
       THEN /\ queue' = Append(queue, t)
            /\ st' = [st EXCEPT ![t] = "waiting"]
            /\ UNCHANGED running
       ELSE /\ running' = running + 1
            /\ st' = [st EXCEPT ![t] = "running"]
            /\ UNCHANGED queue
  /\ UNCHANGED <<gvars, microtasks>>
  /\ UNCHANGED <<svars, rvars, evars, cvars>>

\* add(task), resumed after its wait: running++ and the call of task()
ResumeWaiter ==
  /\ microtasks # <<>>
  /\ Head(microtasks).kind = "resume"
  /\ LET t == Head(microtasks).task IN
       /\ running' = running + 1
       /\ st' = [st EXCEPT ![t] = "running"]
  /\ microtasks' = Tail(microtasks)
  /\ UNCHANGED <<gvars, queue, outcome, seen, adds>>
  /\ UNCHANGED <<svars, rvars, evars, cvars>>

\* the promise of task() settles: fulfilled, or rejected with an error
TaskFinish(t, o) ==
  /\ st[t] = "running"
  /\ st' = [st EXCEPT ![t] = "finished"]
  /\ outcome' = [outcome EXCEPT ![t] = o]
  /\ microtasks' = Append(microtasks, ContJob(t))
  /\ UNCHANGED <<gvars, queue, running, seen, adds>>
  /\ UNCHANGED <<svars, rvars, evars, cvars>>

\* a finally block that takes the waiter off the list without calling it
ReleaseWithoutCall(jobs, t) == Append(jobs, SettleJob(t))

\* queue.pop() in place of queue.shift()
NextWaiterLast == queue[Len(queue)]

\* queue.shift(): the waiter the finally block takes off the wait list
NextWaiter == Head(queue)

\* the slot given back only when the task returned normally
SlotsAfterLeak(t) == IF outcome[t] = "ok" THEN running - 1 ELSE running

\* this.running-- of the finally block, whatever the outcome of the task
SlotsAfter(t) == running - 1

\* the finally block: the jobs left once the slot is given back; calling the
\* waiter's resolve function queues its continuation
Release(jobs, t) ==
  IF Len(queue) > 0
    THEN Append(Append(jobs, ResumeJob(NextWaiter)), SettleJob(t))
    ELSE Append(jobs, SettleJob(t))

ReleasedQueue ==
  IF Len(queue) > 0
    THEN SelectSeq(queue, LAMBDA u : u # NextWaiter)
    ELSE queue

ReleasedState(t) ==
  IF Len(queue) > 0
    THEN [st EXCEPT ![t] = "settled", ![NextWaiter] = "released"]
    ELSE [st EXCEPT ![t] = "settled"]

\* add(task), resumed after await task(): recordSuccess or recordError, then
\* the finally block
Complete ==
  /\ microtasks # <<>>
  /\ Head(microtasks).kind = "cont"
  /\ LET t == Head(microtasks).task IN
       /\ \E p \in Probe :
            microtasks' = Release(AdjustCall(Tail(microtasks), p), t)
       /\ IF outcome[t] = "ok"
            THEN /\ successCount' = successCount + 1
                 /\ UNCHANGED errorCount
            ELSE /\ errorCount' = errorCount + 1
                 /\ UNCHANGED successCount
       /\ running' = SlotsAfter(t)
       /\ queue' = ReleasedQueue
       /\ st' = ReleasedState(t)
  /\ UNCHANGED <<currentConcurrent, lastAdjustment, clock, outcome, seen, adds>>
  /\ UNCHANGED <<svars, rvars, evars, cvars>>

\* the promise returned by add() settles at its caller
Settle ==
  /\ microtasks # <<>>
  /\ Head(microtasks).kind = "settle"
  /\ LET t == Head(microtasks).task IN
       /\ seen' = [seen EXCEPT ![t] = outcome[t]]
       /\ st' = [st EXCEPT ![t] = "delivered"]
  /\ microtasks' = Tail(microtasks)
  /\ UNCHANGED <<gvars, queue, running, outcome, adds>>
  /\ UNCHANGED <<svars, rvars, evars, cvars>>

----------------------------------------------------------------------------
\* The store (schema: products, price_history, scraping_logs)

\* prices are counted in thousandths; Null is the JavaScript null
Null == -1
Prices == {0, 1230, 1234}
NormalizedPrices == Prices \cup {Null}

\* DECIMAL(10, 2): the column keeps two decimals, rounding the third
Round2(p) == IF p = Null THEN Null ELSE ((p + 5) \div 10) * 10

\* the domains of a run (one site each): one domain and another one, which
\* runScraper processes one after the other
Domains == {1, 2}
NDomains == Cardinality(Domains)

\* a product is identified by (site_id, url): UNIQUE(site_id, url)
Keys == Domains \X (1..MaxUrls)
NoRow == -2

\* where a call of the store comes back with an error
StoreFailures == {"none", "select", "write", "history", "categories"}

\* select id, current_price ... single(): the row, or no data (the error of
\* the query is not looked at)
ExistingProduct(k, f) == IF f = "select" THEN NoRow ELSE products[k]

\* products.insert / products.update: the rows afterwards. An insert of a key
\* that has a row violates UNIQUE(site_id, url)
WriteFails(k, f) ==
  \/ f = "write"
  \/ (ExistingProduct(k, f) = NoRow /\ products[k] # NoRow)

WrittenProducts(k, p, f) ==
  IF WriteFails(k, f) THEN products ELSE [products EXCEPT ![k] = Round2(p)]

\* whether processAndStoreProduct calls recordPriceHistory
HistoryWanted(k, p, f) ==
  IF ExistingProduct(k, f) # NoRow
    THEN ExistingProduct(k, f) # p
    ELSE p # Null /\ p # 0

\* recordPriceHistory: price DECIMAL(10, 2) NOT NULL
HistoryFails(p, f) == f = "history" \/ p = Null

RecordedHistory(k, p, f) ==
  IF ~WriteFails(k, f) /\ HistoryWanted(k, p, f) /\ ~HistoryFails(p, f)
    THEN Append(history, [key |-> k, price |-> Round2(p)])
    ELSE history

\* whether processAndStoreProduct returns (TRUE) or throws (FALSE)
Stored(k, p, f) ==
  /\ ~WriteFails(k, f)
  /\ HistoryWanted(k, p, f) => ~HistoryFails(p, f)
  /\ f # "categories"

\* processAndStoreProduct on a record already normalized
ProcessAndStore(k, p, f) ==
  /\ products' = WrittenProducts(k, p, f)
  /\ history' = RecordedHistory(k, p, f)
  /\ lastCall' = [key |-> k, price |-> p, ok |-> Stored(k, p, f)]
  /\ calls' = calls + 1

\* processAndStoreProduct called with any product
ProcessAndStoreProduct(k, p, f) ==
  /\ calls < MaxCalls
  /\ ProcessAndStore(k, p, f)
  /\ UNCHANGED <<evars, cvars, gvars, qvars, rvars, logs>>

----------------------------------------------------------------------------
\* runScraper and scrapeProductsForDomain

MaxRetries == 3

\* a URL of a batch either matches the deny-list of the session or does not
UrlKinds == {"deny", "page"}
Batches == UNION {[1..n -> UrlKinds] : n \in 1..MaxUrls}

\* error messages: of page.goto, isProductPage and the extractors
Messages == {"m1", "m2"}
\* the price the extractors bring back, normalized
ExtractedPrices == {1234}

NotProductError == "URL no corresponde a una pagina de producto"

ProductRecord(u, p) == [link |-> u, kind |-> "product", error |-> "none", price |-> p]
NonProductRecord(u) ==
  [link |-> u, kind |-> "nonproduct", error |-> NotProductError, price |-> Null]
TerminalErrorRecord(u, m) ==
  [link |-> u, kind |-> "error", error |-> m, price |-> Null]

LogEntry(site, status, processedCount, errors, details) ==
  [site_id |-> site, status |-> status, products_processed |-> processedCount,
   errors_count |-> errors, error_details |-> details]

\* the retry loop runs one attempt too many
LoopContinuesOnceMore(done, retries) == ~done /\ retries <= MaxRetries + 1

\* while (!success && retryCount <= CONFIG.maxRetries)
LoopContinues(done, retries) == ~done /\ retries <= MaxRetries

\* the terminal-error record is pushed one failure too late
RetriesExhaustedLate(retries) == retries > MaxRetries + 1

\* if (retryCount > CONFIG.maxRetries)
RetriesExhausted(retries) == retries > MaxRetries

\* the end of one iteration of the for loop over the batch
AfterUrl ==
  /\ idx' = idx + 1
  /\ pc' = IF idx + 1 > Len(batch[dom]) THEN "close" ELSE "url"

\* chromium.launch, browser.newContext, context.newPage
Launch(o) ==
  /\ pc = "launch"
  /\ \/ /\ o = "ok"
        /\ browserOpen' = [browserOpen EXCEPT ![dom] = TRUE]
        /\ results' = <<>>
        /\ idx' = 1
        /\ pc' = "url"
        /\ UNCHANGED failure
     \/ /\ o = "launchFails"
        /\ failure' = "launchError"
        /\ pc' = "logFailed"
        /\ UNCHANGED <<browserOpen, results, idx>>
     \/ /\ o = "contextFails"
        /\ browserOpen' = [browserOpen EXCEPT ![dom] = TRUE]
        /\ failure' = "contextError"
        /\ pc' = "logFailed"
        /\ UNCHANGED <<results, idx>>
  /\ UNCHANGED <<batch, dom, retryCount, success, gotoCount, thrown, sj,
                 domSuccessCount, domErrorCount, errorDetails, delayed>>
  /\ UNCHANGED <<evars, cvars, gvars, qvars, svars>>

OnDenyListNever(kind) == FALSE

\* the test of the URL against the static deny-list
OnDenyList(kind) == kind = "deny"

\* the top of the for body: the delay, the locals, the deny-list
StartUrl ==
  /\ pc = "url"
  /\ retryCount' = 0
  /\ success' = FALSE
  /\ gotoCount' = 0
  /\ thrown' = "none"
  /\ delayed' = (idx > 1)
  /\ IF OnDenyList(batch[dom][idx])
       THEN /\ results' = Append(results, NonProductRecord(idx))
            /\ AfterUrl
       ELSE /\ pc' = "loop"
            /\ UNCHANGED <<results, idx>>
  /\ UNCHANGED <<batch, dom, failure, browserOpen, sj, domSuccessCount,
                 domErrorCount, errorDetails>>
  /\ UNCHANGED <<evars, cvars, gvars, qvars, svars>>

\* a non-product verdict that is recorded without success = true; break
VerdictEndsAttemptsProductOnly(o) == o = "product"

\* success = true; break after a non-product verdict, success = true after
\* the extractor's record
VerdictEndsAttempts(o) == o \in {"product", "notProduct"}

\* one pass of the while body that ends without a throw
AttemptReturns(o, p) ==
  /\ pc = "loop"
  /\ gotoCount' = gotoCount + 1
  /\ results' = Append(results, IF o = "product" THEN ProductRecord(idx, p)
                                                 ELSE NonProductRecord(idx))
  /\ success' = VerdictEndsAttempts(o)
  /\ IF LoopContinues(VerdictEndsAttempts(o), retryCount)
       THEN UNCHANGED <<pc, idx>>
       ELSE AfterUrl
  /\ UNCHANGED <<batch, dom, failure, retryCount, browserOpen, thrown, sj,
                 domSuccessCount, domErrorCount, errorDetails, delayed>>
  /\ UNCHANGED <<evars, cvars, gvars, qvars, svars>>

\* one pass of the while body that throws: the catch block
AttemptThrows(m) ==
  /\ pc = "loop"
  /\ gotoCount' = gotoCount + 1
  /\ thrown' = m
  /\ retryCount' = retryCount + 1
  /\ results' = IF RetriesExhausted(retryCount + 1)
                  THEN Append(results, TerminalErrorRecord(idx, m))
                  ELSE results
  /\ IF LoopContinues(success, retryCount + 1)
       THEN UNCHANGED <<pc, idx>>
       ELSE AfterUrl
  /\ UNCHANGED <<batch, dom, failure, success, browserOpen, sj,
                 domSuccessCount, domErrorCount, errorDetails, delayed>>
  /\ UNCHANGED <<evars, cvars, gvars, qvars, svars>>

\* browser.close() and the return of the result list
Close(o) ==
  /\ pc = "close"
  /\ \/ /\ o = "ok"
        /\ browserOpen' = [browserOpen EXCEPT ![dom] = FALSE]
        /\ pc' = "store"
        /\ sj' = 1
        /\ domSuccessCount' = 0
        /\ domErrorCount' = 0
        /\ errorDetails' = <<>>
        /\ UNCHANGED <<failure, results>>
     \/ /\ o = "closeFails"
        /\ failure' = "closeError"
        /\ pc' = "logFailed"
        /\ results' = <<>>
        /\ UNCHANGED <<browserOpen, sj, domSuccessCount, domErrorCount,
                       errorDetails>>
  /\ idx' = 1
  /\ retryCount' = 0
  /\ success' = FALSE
  /\ gotoCount' = 0
  /\ thrown' = "none"
  /\ delayed' = FALSE
  /\ UNCHANGED <<batch, dom>>
  /\ UNCHANGED <<evars, cvars, gvars, qvars, svars>>

\* the error tally when a failure of the store is not counted
ErrorCountAfterRecordOnly(r, stored) ==
  IF r.error # "none" THEN domErrorCount + 1 ELSE domErrorCount

\* errorCount++ for a record with an error (line 220) and in the catch of
\* processAndStoreProduct (line 231)
ErrorCountAfter(r, stored) ==
  IF r.error # "none" \/ ~stored THEN domErrorCount + 1 ELSE domErrorCount

\* one pass of the loop over the results: a record with an error is counted,
\* any other is handed to processAndStoreProduct
StoreResult(f) ==
  /\ pc = "store"
  /\ LET r == results[sj]
         stored == r.error = "none" /\ Stored(<<dom, r.link>>, r.price, f)
     IN  /\ IF r.error # "none"
              THEN UNCHANGED <<products, history, lastCall, calls>>
              ELSE ProcessAndStore(<<dom, r.link>>, r.price, f)
         /\ domErrorCount' = ErrorCountAfter(r, stored)
         /\ domSuccessCount' = IF stored THEN domSuccessCount + 1
                                         ELSE domSuccessCount
         /\ errorDetails' =
              IF stored
                THEN errorDetails
                ELSE Append(errorDetails,
                            <<r.link, IF r.error # "none" THEN r.error
                                                          ELSE "storeError">>)
  /\ sj' = sj + 1
  /\ pc' = IF sj + 1 > Len(results) THEN "log" ELSE "store"
  /\ UNCHANGED <<batch, dom, failure, idx, retryCount, success, results,
                 browserOpen, gotoCount, thrown, logs, delayed>>
  /\ UNCHANGED <<evars, cvars, gvars, qvars>>

\* the step of the loop over the domains
NextDomain ==
  IF dom + 1 > NDomains
    THEN pc' = "done" /\ UNCHANGED dom
    ELSE pc' = "launch" /\ dom' = dom + 1

\* recordScrapingLog(siteId, "completed", ...) inside the try block
LogCompleted(o) ==
  /\ pc = "log"
  /\ \/ /\ o = "ok"
        /\ logs' = Append(logs, LogEntry(dom, "completed", domSuccessCount,
                                         domErrorCount, errorDetails))
        /\ NextDomain
        /\ UNCHANGED failure
     \/ /\ o = "storeFails"
        /\ failure' = "storeError"
        /\ pc' = "logFailed"
        /\ UNCHANGED <<logs, dom>>
  /\ results' = <<>>
  /\ sj' = 1
  /\ domSuccessCount' = 0
  /\ domErrorCount' = 0
  /\ errorDetails' = <<>>
  /\ UNCHANGED <<batch, idx, retryCount, success, browserOpen, gotoCount,
                 thrown, delayed>>
  /\ UNCHANGED <<evars, cvars, gvars, qvars, products, history, lastCall, calls>>

\* the catch block of the domain: recordScrapingLog(siteId, "failed", ...);
\* when it throws, the catch block of runScraper ends the run
LogFailed(o) ==
  /\ pc = "logFailed"
  /\ \/ /\ o = "ok"
        /\ logs' = Append(logs, LogEntry(dom, "failed", 0, Len(batch[dom]),
                                         <<failure>>))
        /\ NextDomain
     \/ /\ o = "storeFails"
        /\ pc' = "aborted"
        /\ UNCHANGED <<logs, dom>>
  /\ failure' = "none"
  /\ UNCHANGED <<batch, idx, retryCount, success, results, browserOpen,
                 gotoCount, thrown, sj, domSuccessCount, domErrorCount,
                 errorDetails, delayed>>
  /\ UNCHANGED <<evars, cvars, gvars, qvars, products, history, lastCall, calls>>

----------------------------------------------------------------------------
\* The extractors: extractStockInfo

\* a text is known by the stock phrases it contains and by the first number
\* of one to four digits in it
StockPhrases == {"Agotado", "Sin stock", "No disponible", "En stock",
                 "Disponible"}
Text(phrases, number) ==
  [present |-> TRUE, phrases |-> phrases, number |-> number]
\* document.querySelector found no element
Absent == [present |-> FALSE, phrases |-> {}, number |-> Null]

\* stockTexts.agotado and stockTexts.disponible, as far as the phrases go;
\* String.includes is case-sensitive: "No disponible" has no "Disponible"
AgotadoTexts == {"Agotado", "Sin stock", "No disponible"}
DisponibleTexts == {"En stock", "Disponible"}

\* document.body.textContent: the texts of the elements and the rest
BodyPhrases(p) == p.label.phrases \cup p.stockEl.phrases \cup p.body.phrases

\* the first number in the text of the first element that holds the
\* in-stock phrase, which is the document element
DocumentNumber(p) ==
  IF p.body.number # Null THEN p.body.number ELSE p.stockEl.number

\* the status strings extractStockInfo assigns
Desconocido == {}
StatusAgotado == {"Agotado"}
StatusEnStock == {"En stock"}

\* the two loops over stockTexts, the sold-out phrases first and the
\* in-stock phrases after them
StockAfterBody(p, status, quantity) ==
  LET agotado == BodyPhrases(p) \cap AgotadoTexts # {}
      status1 == IF agotado THEN StatusAgotado ELSE status
      quantity1 == IF agotado THEN Null ELSE quantity
  IN  IF BodyPhrases(p) \cap DisponibleTexts # {}
        THEN [status |-> StatusEnStock,
              quantity |-> IF DocumentNumber(p) # Null THEN DocumentNumber(p)
                                                       ELSE quantity1]
        ELSE [status |-> status1, quantity |-> quantity1]

\* extractStockInfo: the platform label, else the stock element, the
\* purchase control and the phrases of the body
extractStockInfo(p) ==
  IF p.label.present
    THEN [status |-> p.label.phrases, quantity |-> Null]
    ELSE LET status0 == IF p.stockEl.present THEN p.stockEl.phrases
                                             ELSE Desconocido
             quantity0 == IF p.stockEl.present THEN p.stockEl.number ELSE Null
             status1 == IF p.disabled THEN StatusAgotado ELSE status0
         IN  StockAfterBody(p, status1, quantity0)

\* the phrases whose lower-case form includes a keyword of
\* normalizeProductData
LowerIncludes(keyword) ==
  CASE keyword = "en stock" -> {"En stock"}
    [] keyword = "disponible" -> {"Disponible", "No disponible"}
    [] keyword = "agotado" -> {"Agotado"}
    [] keyword = "sin stock" -> {"Sin stock"}
    [] keyword = "no disponible" -> {"No disponible"}

StockIncludes(stock, keyword) == stock \cap LowerIncludes(keyword) # {}

\* normalizeProductData: the stock status
NormalizedStatus(stock) ==
  IF StockIncludes(stock, "en stock") \/ StockIncludes(stock, "disponible")
    THEN "in_stock"
    ELSE IF \/ StockIncludes(stock, "agotado")
            \/ StockIncludes(stock, "sin stock")
            \/ StockIncludes(stock, "no disponible")
      THEN "out_of_stock"
      ELSE "unknown"

\* quantity: productData.quantity || null
NormalizedQuantity(quantity) == IF quantity = 0 THEN Null ELSE quantity

----------------------------------------------------------------------------
\* The extractors: cleanPrice, extractPrice, the extracted record and
\* normalizeProductData. A string is the sequence of its characters; the
\* labels "Precio:" and "Precio web:" and the unavailable marker stand as
\* one character each.

Whitespace == {" ", "\n"}
Digits == {"0", "1"}
Separators == {".", ","}

RECURSIVE TrimStart(_)
TrimStart(str) ==
  IF str # <<>> /\ Head(str) \in Whitespace THEN TrimStart(Tail(str)) ELSE str

RECURSIVE TrimEnd(_)
TrimEnd(str) ==
  IF str # <<>> /\ str[Len(str)] \in Whitespace
    THEN TrimEnd(SubSeq(str, 1, Len(str) - 1))
    ELSE str

\* String.prototype.trim
Trim(str) == TrimEnd(TrimStart(str))

\* String.prototype.includes, for one character
Includes(str, c) == \E n \in 1..Len(str) : str[n] = c

IndexOf(str, c) ==
  CHOOSE n \in 1..Len(str) :
    str[n] = c /\ \A m \in 1..(n - 1) : str[m] # c

\* split("\n")[0]
FirstLine(str) ==
  IF Includes(str, "\n") THEN SubSeq(str, 1, IndexOf(str, "\n") - 1) ELSE str

\* replace(label, ""): the first occurrence only
ReplaceFirst(str, c) ==
  IF Includes(str, c)
    THEN SubSeq(str, 1, IndexOf(str, c) - 1)
           \o SubSeq(str, IndexOf(str, c) + 1, Len(str))
    ELSE str

\* replace(/\$\s+/, "$"): the first "$" that white space follows loses
\* the white space after it
DollarSpaceAt(str) ==
  {n \in 1..(Len(str) - 1) : str[n] = "$" /\ str[n + 1] \in Whitespace}

WhitespaceEnd(str, n) ==
  CHOOSE k \in (n + 1)..Len(str) :
    /\ \A m \in (n + 1)..k : str[m] \in Whitespace
    /\ k = Len(str) \/ str[k + 1] \notin Whitespace

ReplaceDollarSpace(str) ==
  IF DollarSpaceAt(str) = {}
    THEN str
    ELSE LET n == CHOOSE a \in DollarSpaceAt(str) :
                    \A b \in DollarSpaceAt(str) : a <= b
         IN  SubSeq(str, 1, n)
               \o SubSeq(str, WhitespaceEnd(str, n) + 1, Len(str))

cleanPrice(text) ==
  IF text = <<>>
    THEN <<>>
    ELSE LET trimmed == Trim(text)
             line == IF Includes(trimmed, "\n") THEN Trim(FirstLine(trimmed))
                                                ELSE trimmed
             bare == Trim(ReplaceFirst(ReplaceFirst(line, "Precio web:"),
                                       "Precio:"))
             priced == IF Includes(bare, "$") THEN bare ELSE <<"$">> \o bare
         IN  ReplaceDollarSpace(priced)

\* the no-match sentinel "$0" and the marker "No disponible (Agotado)"
ZeroPrice == <<"$", "0">>
UnavailableMarker == <<"No disponible (Agotado)">>

\* extractPrice: cleanPrice of the trimmed text of the price element, or the
\* sentinel when no element has a text
extractPrice(p) ==
  IF Trim(p.priceText) = <<>> THEN ZeroPrice
                              ELSE cleanPrice(Trim(p.priceText))

\* the price of the extracted record: the sentinel becomes the marker when the
\* stock status says sold out
ExtractedPrice(p) ==
  IF /\ \/ StockIncludes(extractStockInfo(p).status, "agotado")
        \/ StockIncludes(extractStockInfo(p).status, "sin stock")
        \/ StockIncludes(extractStockInfo(p).status, "no disponible")
     /\ extractPrice(p) = ZeroPrice
    THEN UnavailableMarker
    ELSE extractPrice(p)

\* price.match(/\d+([.,]\d+)?/): where the match starts, where its integer
\* part ends and where its fraction ends (0: no fraction)
MatchStart(str) ==
  CHOOSE n \in 1..Len(str) :
    str[n] \in Digits /\ \A m \in 1..(n - 1) : str[m] \notin Digits

DigitsEnd(str, n) ==
  CHOOSE k \in n..Len(str) :
    /\ \A m \in n..k : str[m] \in Digits
    /\ k = Len(str) \/ str[k + 1] \notin Digits

FractionEnd(str, k) ==
  IF k + 2 <= Len(str) /\ str[k + 1] \in Separators /\ str[k + 2] \in Digits
    THEN DigitsEnd(str, k + 2)
    ELSE 0

DigitValue(c) == IF c = "1" THEN 1 ELSE 0

RECURSIVE IntegerValue(_)
IntegerValue(digits) ==
  IF digits = <<>>
    THEN 0
    ELSE 10 * IntegerValue(SubSeq(digits, 1, Len(digits) - 1))
           + DigitValue(digits[Len(digits)])

\* the fraction in thousandths: its first three digits
RECURSIVE FractionValue(_, _)
FractionValue(digits, unit) ==
  IF digits = <<>> \/ unit = 0
    THEN 0
    ELSE unit * DigitValue(Head(digits))
           + FractionValue(Tail(digits), unit \div 10)

\* parseFloat of the match, in thousandths
ParsedPrice(str) ==
  LET n == MatchStart(str)
      k == DigitsEnd(str, n)
      f == FractionEnd(str, k)
  IN  1000 * IntegerValue(SubSeq(str, n, k))
        + (IF f = 0 THEN 0 ELSE FractionValue(SubSeq(str, k + 2, f), 100))

\* normalizeProductData: current_price
NormalizedPrice(price) ==
  IF price # <<>> /\ price # UnavailableMarker
       /\ \E n \in 1..Len(price) : price[n] \in Digits
    THEN ParsedPrice(price)
    ELSE Null

\* the pages: the platform stock label, the stock element, the purchase
\* control, the rest of the body and the text of the price element
LabelTexts ==
  {Text({ph}, Null) : ph \in {"Agotado", "No disponible", "Disponible"}}
StockTexts ==
  {Text(phs, n) : phs \in {{}} \cup {{ph} : ph \in StockPhrases},
                  n \in {Null, 5}}
BodyTexts ==
  {Text(phs, n) : phs \in {{}} \cup {{ph} : ph \in StockPhrases},
                  n \in {Null, 7}}
PriceChars == {"$", "0", "1", "."}
PriceTexts == UNION {[1..n -> PriceChars] : n \in 0..MaxPriceLen}
Pages ==
  [label : {Absent} \cup LabelTexts, stockEl : {Absent} \cup StockTexts,
   disabled : BOOLEAN, body : BodyTexts, priceText : PriceTexts]

\* the arguments of cleanPrice
TextChars == {"Precio:", "Precio web:", "$", " ", "\n", "1"}
Texts == UNION {[1..n -> TextChars] : n \in 0..MaxTextLen}

NoPage ==
  [label |-> Absent, stockEl |-> Absent, disabled |-> FALSE,
   body |-> Text({}, Null), priceText |-> <<>>]
NoProductData ==
  [extracted |-> FALSE, price |-> <<>>, stock |-> {}, quantity |-> Null]
NoNormalizedProduct ==
  [normalized |-> FALSE, current_price |-> Null, status |-> "unknown",
   quantity |-> Null]
NotCleaned == [times |-> 0, text |-> <<>>]

\* extractWooCommerceProductData / extractJumpSellerProductData: the stock,
\* the price and the record returned
ExtractProductData ==
  /\ ~productData.extracted
  /\ productData' = [extracted |-> TRUE,
                     price |-> ExtractedPrice(page),
                     stock |-> extractStockInfo(page).status,
                     quantity |-> extractStockInfo(page).quantity]
  /\ UNCHANGED <<page, normalizedProduct, priceText, cleaned>>
  /\ UNCHANGED <<gvars, qvars, svars, rvars, cvars>>

\* normalizeProductData of the extracted record
NormalizeProductData ==
  /\ productData.extracted
  /\ ~normalizedProduct.normalized
  /\ normalizedProduct' =
       [normalized |-> TRUE,
        current_price |-> NormalizedPrice(productData.price),
        status |-> NormalizedStatus(productData.stock),
        quantity |-> NormalizedQuantity(productData.quantity)]
  /\ UNCHANGED <<page, productData, priceText, cleaned>>
  /\ UNCHANGED <<gvars, qvars, svars, rvars, cvars>>

\* cleanPrice called on a text, then on what it returned
CleanPriceCall ==
  /\ cleaned.times < 2
  /\ cleaned' =
       [times |-> cleaned.times + 1,
        text |-> cleanPrice(IF cleaned.times = 0 THEN priceText
                                                 ELSE cleaned.text)]
  /\ UNCHANGED <<page, productData, normalizedProduct, priceText>>
  /\ UNCHANGED <<gvars, qvars, svars, rvars, cvars>>

----------------------------------------------------------------------------
\* The sitemap resolver (src/src/scraper.js 269-428)

\* A URL of the site is the text after the host, as a string of tokens: <<>>
\* is the bare host, every other URL starts with "/".  "ntilde" is a letter
\* outside ASCII; "contact" stands for an entry of the deny-lists
\* ("/contact", "/tienda", "/cart", ...), "pages" and "acero" for "/pages/"
\* and ".cl/acero".

\* the deny-list of processJumpSellerSitemap; includes is
\* String.prototype.includes
JumpSellerDenied(url) ==
  LET includes(sub) ==
        \E n \in 0..(Len(url) - Len(sub)) :
          SubSeq(url, n + 1, n + Len(sub)) = sub
  IN  \/ url = <<>>
      \/ url = <<"/">>
      \/ includes(<<"/", "contact">>)
      \/ url = <<"/", "acero">>
      \/ includes(<<"/", "pages", "/">>)

isLikelyProductUrlSegmentsOnly(url) ==
  LET urlPath == IF url = <<>> THEN <<"/">> ELSE url
      pathSegments ==
        {n \in 1..Len(urlPath) :
           urlPath[n] # "/" /\ (n = 1 \/ urlPath[n - 1] = "/")}
  IN  Cardinality(pathSegments) >= 2

\* urlPath is new URL(url).pathname: "/" for the bare host, and a character
\* outside ASCII is percent-encoded
isLikelyProductUrl(url) ==
  LET urlPath ==
        IF url = <<>>
          THEN <<"/">>
          ELSE [n \in 1..Len(url) |->
                  IF url[n] = "ntilde" THEN "%C3%B1" ELSE url[n]]
      pathSegments ==
        {n \in 1..Len(urlPath) :
           urlPath[n] # "/" /\ (n = 1 \/ urlPath[n - 1] = "/")}
  IN  \/ Cardinality(pathSegments) >= 2
      \/ Includes(urlPath, "-")
      \/ \E n \in 1..Len(urlPath) : urlPath[n] \in {"1", "%C3%B1"}

processJumpSellerSitemap(urlset) ==
  SelectSeq(urlset,
            LAMBDA url : ~JumpSellerDenied(url) /\ isLikelyProductUrl(url))

\* the filter of processDirectSitemap: its deny-list
processDirectSitemap(urlset) ==
  LET includes(url, sub) ==
        \E n \in 0..(Len(url) - Len(sub)) :
          SubSeq(url, n + 1, n + Len(sub)) = sub
  IN  SelectSeq(urlset, LAMBDA url : ~includes(url, <<"/", "contact">>))

processIndexSitemapStopAtFailure(subs) ==
  LET productSitemaps ==
        SelectSeq(subs, LAMBDA sub : sub.loc = "product")
      collected[n \in 0..Len(productSitemaps)] ==
        IF n = 0
          THEN <<>>
          ELSE IF \E m \in 1..n : productSitemaps[m].fetch = "fails"
                 THEN <<>>
                 ELSE collected[n - 1] \o productSitemaps[n].urls
  IN  collected[Len(productSitemaps)]

\* the sub-sitemaps whose location names products are fetched in turn; one
\* that fails to load or to parse is logged and skipped
processIndexSitemap(subs) ==
  LET productSitemaps ==
        SelectSeq(subs, LAMBDA sub : sub.loc = "product")
      collected[n \in 0..Len(productSitemaps)] ==
        IF n = 0
          THEN <<>>
          ELSE IF productSitemaps[n].fetch = "fails"
                 THEN collected[n - 1]
                 ELSE collected[n - 1] \o productSitemaps[n].urls
  IN  collected[Len(productSitemaps)]

\* a failure to load or to parse the sitemap is caught and gives no URL
getProductUrlsFromSitemap(sitemap) ==
  IF sitemap.fetch = "fails"
    THEN <<>>
    ELSE IF sitemap.index
      THEN processIndexSitemap(sitemap.subs)
      ELSE IF sitemap.platform = "jumpseller"
        THEN processJumpSellerSitemap(sitemap.urls)
        ELSE processDirectSitemap(sitemap.urls)

\* runScraper: one turn of the loop over SITEMAPS
ResolveSitemap ==
  /\ si <= Len(sitemaps)
  /\ LET urls == getProductUrlsFromSitemap(sitemaps[si]) IN
       /\ found' = Append(found, urls)
       /\ allProductUrls' = allProductUrls \o urls
  /\ si' = si + 1
  /\ UNCHANGED <<sitemaps, signals, verdicts, searchText, detectedCategories,
                 scheduler, runs>>
  /\ UNCHANGED <<gvars, qvars, svars, rvars, evars>>

----------------------------------------------------------------------------
\* The product-page classifier (src/src/scraper.js 431-537)

\* the weight each signal adds to the score
Weights ==
  [hasAddToCartButton |-> 2, hasPriceElement |-> 2, hasProductTitle |-> 1,
   hasProductGallery |-> 1, hasJumpSellerProductForm |-> 2,
   hasWooCommerceProductElements |-> 2, hasStockInfo |-> 1,
   hasProductTerms |-> 1, hasProductForm |-> 2, hasSku |-> 2,
   isOrtotekProduct |-> 3, stockComment |-> 2, cartForms |-> 3,
   productPath |-> 2]

\* let score = 0, then one test per signal, in the order of the code; the
\* verdict is score >= 3, and false when the evaluation on the page throws
\* (both catch blocks return false)
isProductPage(present, evaluation) ==
  LET order == <<"hasAddToCartButton", "hasPriceElement", "hasProductTitle",
                 "hasProductGallery", "hasJumpSellerProductForm",
                 "hasWooCommerceProductElements", "hasStockInfo",
                 "hasProductTerms", "hasProductForm", "hasSku",
                 "isOrtotekProduct", "stockComment", "cartForms",
                 "productPath">>
      score[n \in 0..Len(order)] ==
        IF n = 0
          THEN 0
          ELSE IF order[n] \in present
                 THEN score[n - 1] + Weights[order[n]]
                 ELSE score[n - 1]
  IN  evaluation = "ok" /\ score[Len(order)] >= 3

\* isProductPage is called on the loaded page
IsProductPageCall(evaluation) ==
  /\ Len(verdicts) < 2
  /\ Len(verdicts) = 1 => verdicts[1].signals # signals
  /\ verdicts' = Append(verdicts,
                        [signals |-> signals,
                         product |-> isProductPage(signals, evaluation)])
  /\ UNCHANGED <<sitemaps, si, found, allProductUrls, signals, searchText,
                 detectedCategories, scheduler, runs>>
  /\ UNCHANGED <<gvars, qvars, svars, rvars, evars>>

\* the page gains one more signal between two calls
SignalAppears(signal) ==
  /\ Len(verdicts) = 1
  /\ verdicts[1].signals = signals
  /\ signal \notin signals
  /\ signals' = signals \cup {signal}
  /\ UNCHANGED <<sitemaps, si, found, allProductUrls, verdicts, searchText,
                 detectedCategories, scheduler, runs>>
  /\ UNCHANGED <<gvars, qvars, svars, rvars, evars>>

----------------------------------------------------------------------------
\* The category classifier (src/src/db/dataProcessor.js 5-314)

\* an excerpt of CATEGORY_RULES, in the order of the table: three categories,
\* two subcategories each, with the keywords that occur in the searched texts
CATEGORY_RULES ==
  <<[key |-> "surgical", keywords |-> <<"forcep", "bisturi'">>,
     subcategories |->
       <<[key |-> "forceps", keywords |-> <<"forcep">>],
         [key |-> "surgical-instruments", keywords |-> <<"bisturi'">>]>>],
    [key |-> "restorative", keywords |-> <<"cemento", "'acido">>,
     subcategories |->
       <<[key |-> "cements", keywords |-> <<"cemento">>],
         [key |-> "acids", keywords |-> <<"'acido">>]>>],
    [key |-> "endodontics", keywords |-> <<"lima">>,
     subcategories |->
       <<[key |-> "files", keywords |-> <<"lima">>],
         [key |-> "obturation", keywords |-> <<"cemento">>]>>]>>

\* the sum over the keywords of (searchText.match(/\bkeyword\b/gi) || []).length;
\* \b holds between two places when exactly one of the two characters is one
\* of [A-Za-z0-9_]
KeywordScore(keywords, str) ==
  LET wordAtEnd(c) == c \in {"s", "forcep", "cemento", "lima", "'acido"}
      wordAtStart(c) == c \in {"s", "forcep", "cemento", "lima", "bisturi'"}
      boundary(n) ==
        (n >= 1 /\ wordAtEnd(str[n])) # (n < Len(str) /\ wordAtStart(str[n + 1]))
      matches(keyword) ==
        Cardinality({n \in 1..Len(str) : /\ str[n] = keyword
                                         /\ boundary(n - 1)
                                         /\ boundary(n)})
      score[k \in 0..Len(keywords)] ==
        IF k = 0 THEN 0 ELSE score[k - 1] + matches(keywords[k])
  IN  score[Len(keywords)]

\* categoryScores, in insertion order: a category that scores, then its
\* subcategories that score, then the next category; sorted by b[1] - a[1]
\* (the sort is stable); ["others"] when nothing was detected
detectProductCategories(str) ==
  LET entries(category) ==
        IF KeywordScore(category.keywords, str) > 0
          THEN <<[id |-> category.key,
                  score |-> KeywordScore(category.keywords, str)]>>
               \o SelectSeq(
                    [k \in 1..Len(category.subcategories) |->
                       [id |-> category.key \o "_"
                                 \o category.subcategories[k].key,
                        score |-> KeywordScore(
                                    category.subcategories[k].keywords, str)]],
                    LAMBDA entry : entry.score > 0)
          ELSE <<>>
      categoryScores[c \in 0..Len(CATEGORY_RULES)] ==
        IF c = 0
          THEN <<>>
          ELSE categoryScores[c - 1] \o entries(CATEGORY_RULES[c])
      all == categoryScores[Len(CATEGORY_RULES)]
      sorted[v \in 0..Len(str)] ==
        IF v = 0
          THEN <<>>
          ELSE SelectSeq(all, LAMBDA entry : entry.score = v) \o sorted[v - 1]
      sortedCategories == sorted[Len(str)]
  IN  IF all = <<>>
        THEN <<"others">>
        ELSE [n \in 1..Len(sortedCategories) |-> sortedCategories[n].id]

\* the slugs of the categories ensureCategories looks up and creates
ensureCategories ==
  {CATEGORY_RULES[c].key : c \in 1..Len(CATEGORY_RULES)}
  \cup {CATEGORY_RULES[c].key \o "-" \o CATEGORY_RULES[c].subcategories[k].key :
          c \in 1..Len(CATEGORY_RULES), k \in 1..2}
  \cup {"others"}

\* processAndStoreProduct detects the categories of the product
DetectProductCategories ==
  /\ detectedCategories = <<>>
  /\ detectedCategories' = detectProductCategories(searchText)
  /\ UNCHANGED <<sitemaps, si, found, allProductUrls, signals, verdicts,
                 searchText, scheduler, runs>>
  /\ UNCHANGED <<gvars, qvars, svars, rvars, evars>>

----------------------------------------------------------------------------
\* The scheduler (src/src/scheduler.js) and the call of runScraper at the end
\* of src/src/scraper.js

\* import runScraper from "./scraper.js": the module is evaluated, and its
\* last statement calls runScraper() without awaiting it
LoadScraper ==
  /\ scheduler = "import"
  /\ scheduler' = "start"
  /\ runs' = [runs EXCEPT ![0] = "running"]
  /\ UNCHANGED <<sitemaps, si, found, allProductUrls, signals, verdicts,
                 searchText, detectedCategories>>
  /\ UNCHANGED <<gvars, qvars, svars, rvars, evars>>

\* startScheduler(), up to await runScraper()
StartScheduler ==
  /\ scheduler = "start"
  /\ scheduler' = "initial"
  /\ runs' = [runs EXCEPT ![1] = "running"]
  /\ UNCHANGED <<sitemaps, si, found, allProductUrls, signals, verdicts,
                 searchText, detectedCategories>>
  /\ UNCHANGED <<gvars, qvars, svars, rvars, evars>>

\* a call of runScraper returns (it catches its own errors)
RunEnds(r) ==
  /\ runs[r] = "running"
  /\ runs' = [runs EXCEPT ![r] = "finished"]
  /\ UNCHANGED <<sitemaps, si, found, allProductUrls, signals, verdicts,
                 searchText, detectedCategories, scheduler>>
  /\ UNCHANGED <<gvars, qvars, svars, rvars, evars>>

\* startScheduler(), after the initial run: setInterval
ScheduleRuns ==
  /\ scheduler = "initial"
  /\ runs[1] = "finished"
  /\ scheduler' = "interval"
  /\ UNCHANGED <<sitemaps, si, found, allProductUrls, signals, verdicts,
                 searchText, detectedCategories, runs>>
  /\ UNCHANGED <<gvars, qvars, svars, rvars, evars>>

\* the interval elapses: the callback calls runScraper()
IntervalRun ==
  /\ scheduler = "interval"
  /\ \E r \in 2..(MaxIntervalRuns + 1) :
       /\ runs[r] = "idle"
       /\ runs[r - 1] # "idle"
       /\ runs' = [runs EXCEPT ![r] = "running"]
  /\ UNCHANGED <<sitemaps, si, found, allProductUrls, signals, verdicts,
                 searchText, detectedCategories, scheduler>>
  /\ UNCHANGED <<gvars, qvars, svars, rvars, evars>>

----------------------------------------------------------------------------
vars == <<gvars, qvars, svars, rvars, evars, cvars>>

InitGovernor ==
  /\ currentConcurrent = InitialConcurrent
  /\ errorCount = 0
  /\ successCount = 0
  /\ lastAdjustment = 0
  /\ clock = 0

InitQueue ==
  /\ queue = <<>>
  /\ running = 0
  /\ microtasks = <<>>
  /\ st = [t \in Tasks |-> "idle"]
  /\ outcome = [t \in Tasks |-> "none"]
  /\ seen = [t \in Tasks |-> "none"]
  /\ adds = 0

InitStore ==
  /\ products = [k \in Keys |-> NoRow]
  /\ history = <<>>
  /\ logs = <<>>
  /\ lastCall = [key |-> <<0, 0>>, price |-> Null, ok |-> FALSE]
  /\ calls = 0

\* no run under way
InitIdle ==
  /\ batch = [d \in Domains |-> <<>>]
  /\ pc = "idle"
  /\ dom = 1
  /\ failure = "none"
  /\ idx = 1
  /\ retryCount = 0
  /\ success = FALSE
  /\ results = <<>>
  /\ browserOpen = [d \in Domains |-> FALSE]
  /\ gotoCount = 0
  /\ thrown = "none"
  /\ sj = 1
  /\ domSuccessCount = 0
  /\ domErrorCount = 0
  /\ errorDetails = <<>>
  /\ delayed = FALSE

\* runScraper at its loop over the domains, the URLs grouped by domain
InitRun ==
  /\ batch \in [Domains -> Batches]
  /\ pc = "launch"
  /\ dom = 1
  /\ failure = "none"
  /\ idx = 1
  /\ retryCount = 0
  /\ success = FALSE
  /\ results = <<>>
  /\ browserOpen = [d \in Domains |-> FALSE]
  /\ gotoCount = 0
  /\ thrown = "none"
  /\ sj = 1
  /\ domSuccessCount = 0
  /\ domErrorCount = 0
  /\ errorDetails = <<>>
  /\ delayed = FALSE

\* no page loaded, cleanPrice not called
InitNoPage ==
  /\ page = NoPage
  /\ productData = NoProductData
  /\ normalizedProduct = NoNormalizedProduct
  /\ priceText = <<>>
  /\ cleaned = NotCleaned

\* a page has been loaded and classified as a product page
InitPage ==
  /\ page \in Pages
  /\ productData = NoProductData
  /\ normalizedProduct = NoNormalizedProduct
  /\ priceText = <<>>
  /\ cleaned = NotCleaned

\* cleanPrice is about to be called on a text
InitText ==
  /\ page = NoPage
  /\ productData = NoProductData
  /\ normalizedProduct = NoNormalizedProduct
  /\ priceText \in Texts
  /\ cleaned = NotCleaned

\* what the resolver and the classifiers are handed, nothing resolved or
\* classified yet; node scheduler.js before its imports are evaluated
InitInput(lists, vectors, texts) ==
  /\ sitemaps \in lists
  /\ si = 1
  /\ found = <<>>
  /\ allProductUrls = <<>>
  /\ signals \in vectors
  /\ verdicts = <<>>
  /\ searchText \in texts
  /\ detectedCategories = <<>>
  /\ scheduler = "import"
  /\ runs = [r \in 0..(MaxIntervalRuns + 1) |-> "idle"]

Init ==
  InitGovernor /\ InitQueue /\ InitStore /\ InitIdle /\ InitNoPage
  /\ InitInput({<<>>}, {{}}, {<<>>})

\* the governor driven through its own methods
NextGovernor ==
  \/ RecordSuccess
  \/ RecordError
  \/ AdjustResume
  \/ GovernorTick

SpecGovernor == Init /\ [][NextGovernor]_vars

\* tasks run through the queue
Next ==
  \/ \E t \in Tasks : Add(t)
  \/ \E t \in Tasks : \E o \in Outcomes(t) : TaskFinish(t, o)
  \/ ResumeWaiter
  \/ Complete
  \/ Settle
  \/ AdjustResume
  \/ Tick

Spec == Init /\ [][Next]_vars

\* products processed one after the other
NextStore ==
  \E k \in {<<1, u>> : u \in 1..MaxUrls}, p \in NormalizedPrices, f \in StoreFailures :
    ProcessAndStoreProduct(k, p, f)

SpecStore == Init /\ [][NextStore]_vars

\* one run of runScraper
NextRun ==
  \/ \E o \in {"ok", "launchFails", "contextFails"} : Launch(o)
  \/ StartUrl
  \/ \E o \in {"product", "notProduct"}, p \in ExtractedPrices :
       AttemptReturns(o, p)
  \/ \E m \in Messages : AttemptThrows(m)
  \/ \E o \in {"ok", "closeFails"} : Close(o)
  \/ \E f \in StoreFailures : StoreResult(f)
  \/ \E o \in {"ok", "storeFails"} : LogCompleted(o)
  \/ \E o \in {"ok", "storeFails"} : LogFailed(o)

\* the program at the start of runScraper's loop over the domains
InitSession ==
  InitGovernor /\ InitQueue /\ InitStore /\ InitRun /\ InitNoPage
  /\ InitInput({<<>>}, {{}}, {<<>>})

SpecRun == InitSession /\ [][NextRun]_vars

\* a page taken through the extractor and normalizeProductData
InitExtract ==
  InitGovernor /\ InitQueue /\ InitStore /\ InitIdle /\ InitPage
  /\ InitInput({<<>>}, {{}}, {<<>>})

NextExtract ==
  \/ ExtractProductData
  \/ NormalizeProductData

SpecExtract == InitExtract /\ [][NextExtract]_vars

\* cleanPrice applied twice to a text
InitClean ==
  InitGovernor /\ InitQueue /\ InitStore /\ InitIdle /\ InitText
  /\ InitInput({<<>>}, {{}}, {<<>>})

NextClean == CleanPriceCall

SpecClean == InitClean /\ [][NextClean]_vars

\* what the network serves: a sitemap is an index of sub-sitemaps or a list
\* of URLs, and every fetch succeeds or fails (to load or to parse); one or
\* two sitemaps with a few URLs, or one JumpSeller sitemap with any one URL
InitSitemaps ==
  /\ InitGovernor /\ InitQueue /\ InitStore /\ InitIdle /\ InitNoPage
  /\ InitInput(
      LET chars == {"/", "a", "ntilde", "-", "1", "contact", "pages", "acero"}
          anyUrl ==
            {<<>>} \cup
            {<<"/">> \o str :
               str \in UNION {[1..n -> chars] : n \in 0..MaxPathLen}}
          urlsets == {<<<<"/", "a", "-", "1">>>>,
                      <<<<"/", "a", "a">>, <<"/", "contact">>>>}
          subsitemaps ==
            [loc : {"product", "post"}, fetch : {"ok", "fails"}, urls : urlsets]
          indexes ==
            [index : {TRUE}, platform : {"woocommerce"}, fetch : {"ok", "fails"},
             subs : UNION {[1..n -> subsitemaps] : n \in 0..2}, urls : {<<>>}]
          urlLists ==
            [index : {FALSE}, platform : {"woocommerce", "jumpseller"},
             fetch : {"ok", "fails"}, subs : {<<>>},
             urls : {<<>>} \cup urlsets]
      IN  UNION {[1..n -> indexes \cup urlLists] : n \in 1..2}
          \cup {<<[index |-> FALSE, platform |-> "jumpseller", fetch |-> "ok",
                   subs |-> <<>>, urls |-> <<url>>]>> : url \in anyUrl},
       {{}}, {<<>>})

SpecSitemaps == InitSitemaps /\ [][ResolveSitemap]_vars

\* the page that isProductPage is called on: any set of the signals
InitSignals ==
  /\ InitGovernor /\ InitQueue /\ InitStore /\ InitIdle /\ InitNoPage
  /\ InitInput({<<>>}, SUBSET DOMAIN Weights, {<<>>})

SpecClassify ==
  /\ InitSignals
  /\ [][\/ \E o \in {"ok", "throws"} : IsProductPageCall(o)
        \/ \E signal \in DOMAIN Weights : SignalAppears(signal)]_vars

\* The searched text is a string of tokens: a space, an ASCII letter "s", and
\* the keywords, each one token.  "bisturi'" ends and "'acido" starts with an
\* accented letter, which is a letter but not a word character of the regular
\* expression.
InitSearchText ==
  /\ InitGovernor /\ InitQueue /\ InitStore /\ InitIdle /\ InitNoPage
  /\ InitInput({<<>>}, {{}},
      UNION {[1..n -> {" ", "s", "forcep", "bisturi'", "cemento", "'acido",
                       "lima"}] : n \in 0..MaxSearchLen})

SpecCategories == InitSearchText /\ [][DetectProductCategories]_vars

SpecScheduler ==
  /\ Init
  /\ [][\/ LoadScraper
        \/ StartScheduler
        \/ \E r \in DOMAIN runs : RunEnds(r)
        \/ ScheduleRuns
        \/ IntervalRun]_vars

\* The queue under a governor that has been adjusted twice: the bound is at
\* its floor or one above it, and the successes counted since the last
\* evaluation are as many as the threshold
InitAdmission ==
  /\ currentConcurrent \in {MinConcurrent, MinConcurrent + 1}
  /\ errorCount = 0
  /\ successCount = SuccessThreshold
  /\ lastAdjustment = 2 * AdjustWindow
  /\ clock = 2 * AdjustWindow
  /\ InitQueue /\ InitStore /\ InitIdle /\ InitNoPage /\ InitInput({<<>>}, {{}}, {<<>>})

\* Every caller hands one task to add().  The job queue is always drained, so
\* the job at its head is eventually run; every task that was started
\* eventually settles (the premise of C27).  Arrivals and the passing of time
\* are under no obligation.
SpecAdmission ==
  /\ InitAdmission
  /\ [][\/ \E t \in Tasks : st[t] = "idle" /\ Add(t)
        \/ \E t \in Tasks : \E o \in Outcomes(t) : TaskFinish(t, o)
        \/ ResumeWaiter
        \/ Complete
        \/ Settle
        \/ AdjustResume
        \/ Advance(3 * AdjustWindow)]_vars
  /\ WF_vars(ResumeWaiter)
  /\ WF_vars(Complete)
  /\ WF_vars(Settle)
  /\ WF_vars(AdjustResume)
  /\ \A t \in Tasks : WF_vars(\E o \in Outcomes(t) : TaskFinish(t, o))


----------------------------------------------------------------------------
\* C1: at every point the number of tasks admitted by the queue and not yet
\* completed is at most the governor's current bound.
Executing == {t \in Tasks : st[t] = "running"}

C1_InFlightWithinBound == Cardinality(Executing) <= currentConcurrent

\* C2: for the governor created with bound 4 and ceiling 8, after any
\* sequence of recordSuccess, recordError and evaluations the bound is an
\* integer in [2, 8].
C2_BoundInRange == currentConcurrent \in MinConcurrent..MaxConcurrent

\* the bound has been raised to the ceiling and an evaluation is pending
C2_Witness ==
  /\ currentConcurrent = MaxConcurrent
  /\ lastAdjustment > 0
  /\ microtasks # <<>>

\* C3 as claimed: every URL of a batch gets exactly one record, whatever
\* navigation, classification or browser failure occurs.
RecordsFor(u) == {j \in 1..Len(results) : results[j].link = u}

SessionReturned == pc \in {"store", "log"}
SessionFailed ==
  pc = "logFailed" /\ failure \in {"launchError", "contextError", "closeError"}

C3_OneRecordPerUrlAlways ==
  (SessionReturned \/ SessionFailed) =>
    \A u \in 1..Len(batch[dom]) : Cardinality(RecordsFor(u)) = 1

\* C3 as amended: whenever a domain session returns its result list, the
\* list holds exactly one record for every URL of the batch, in the order of
\* the batch, each a success, a non-product or a terminal-error record.
C3_OneRecordPerUrlWhenReturned ==
  SessionReturned =>
    /\ Len(results) = Len(batch[dom])
    /\ \A u \in 1..Len(batch[dom]) :
         /\ RecordsFor(u) = {u}
         /\ results[u].kind \in {"product", "nonproduct", "error"}

\* a session has returned a terminal-error record and a non-product record
C3_Witness ==
  /\ pc = "store"
  /\ Len(results) = 2
  /\ results[1].kind = "error"
  /\ results[2].kind = "nonproduct"

\* C4: a URL off the deny-list is navigated to at most maxRetries + 1 times;
\* when all maxRetries + 1 attempts throw, one terminal-error record is
\* recorded for it, carrying the message of the last error thrown, and no
\* further attempt is made for that URL.
C4_BoundedRetries ==
  [][/\ gotoCount' <= MaxRetries + 1
     /\ gotoCount' > gotoCount =>
          /\ batch[dom][idx] = "page"
          /\ RecordsFor(idx) = {}
     /\ (gotoCount' > gotoCount /\ retryCount' = MaxRetries + 1) =>
          /\ gotoCount' = MaxRetries + 1
          /\ results' = Append(results, TerminalErrorRecord(idx, thrown'))
     /\ (Len(results') > Len(results)
           /\ results'[Len(results')].kind = "error") =>
          /\ retryCount' = MaxRetries + 1
          /\ results'[Len(results')].error = thrown']_vars

\* the fourth attempt for a URL has just thrown "m2" and the terminal-error
\* record is the last of the list
C4_Witness ==
  /\ gotoCount = MaxRetries + 1
  /\ thrown = "m2"
  /\ Len(results) > 0
  /\ results[Len(results)] = TerminalErrorRecord(Len(results), "m2")

\* C5: every run ends having appended exactly one scrape-log entry for each
\* of its domains, whatever sitemap, navigation, browser-launch and store
\* failures occur.
EntriesOf(d) == {j \in 1..Len(logs) : logs[j].site_id = d}

C5_OneLogEntryPerDomain ==
  pc \in {"done", "aborted"} =>
    \A d \in Domains : Cardinality(EntriesOf(d)) = 1

\* C6: when opening the browser session of a domain fails, the run appends
\* one scrape-log entry for that domain (failed, 0 products processed, as
\* many errors as the batch has URLs) and goes on to the other domains.
BrowserOpenFailed ==
  pc = "logFailed" /\ failure \in {"launchError", "contextError"}

C6_BrowserFailureLoggedAndIsolated ==
  [][BrowserOpenFailed =>
       /\ logs' = Append(logs, LogEntry(dom, "failed", 0, Len(batch[dom]),
                                        <<failure>>))
       /\ pc' \in {"launch", "done"}]_vars

\* C7: a product processed twice in sequence with the same normalized price
\* keeps one product row and gets no price-history row the second time; with
\* a different normalized price it gets exactly one row, holding the new
\* price; price-history rows are never modified or removed.
ProcessedAgain ==
  /\ calls' = calls + 1
  /\ lastCall.ok
  /\ lastCall'.ok
  /\ lastCall'.key = lastCall.key

IsPrefix(s1, s2) ==
  /\ Len(s1) <= Len(s2)
  /\ \A n \in 1..Len(s1) : s1[n] = s2[n]

C7_PriceHistoryIdempotent ==
  [][/\ IsPrefix(history, history')
     /\ ProcessedAgain =>
          /\ products'[lastCall'.key] # NoRow
          /\ lastCall'.price = lastCall.price => history' = history
          /\ lastCall'.price # lastCall.price =>
               history' = Append(history, [key |-> lastCall'.key,
                                           price |-> Round2(lastCall'.price)])
    ]_vars

\* an evaluation that passed the window check goes on after its probe
EvaluationResumes ==
  /\ microtasks # <<>>
  /\ Head(microtasks).kind = "adjust"
  /\ microtasks' = Tail(microtasks)

C12_DecreaseByOne ==
  [][(/\ EvaluationResumes
      /\ \/ Head(microtasks).probe = "pressure"
         \/ errorCount > 5) =>
       /\ currentConcurrent' = Max(2, currentConcurrent - 1)
       /\ errorCount' = 0]_vars

\* C13: after every evaluation that passed the window check and whose probe
\* answered, the success counter and the error counter are both 0.
C13_CountersResetEachEvaluation ==
  [][(EvaluationResumes /\ Head(microtasks).probe # "throws") =>
       /\ successCount' = 0
       /\ errorCount' = 0]_vars

\* C14: in a run, every completion of an extraction task (a record is added
\* to the result list of the session) increments exactly one counter of the
\* governor by one: the success counter for a success record, the error
\* counter for a terminal-error record.
C14_CompletionFeedsOneCounter ==
  [][Len(results') = Len(results) + 1 =>
       \/ /\ successCount' = successCount + 1
          /\ errorCount' = errorCount
       \/ /\ errorCount' = errorCount + 1
          /\ successCount' = successCount]_vars

\* C15: when the classifier answers false for a loaded page, the session
\* records one non-product record for the URL and leaves the retry loop,
\* whatever the retry counter is; a URL that has a record is never
\* navigated to again.
ClassifiedNonProduct ==
  /\ gotoCount' = gotoCount + 1
  /\ Len(results') = Len(results) + 1
  /\ results'[Len(results')].kind = "nonproduct"

C15_NonProductNotRetried ==
  [][/\ ClassifiedNonProduct =>
          /\ results' = Append(results, NonProductRecord(idx))
          /\ retryCount' = retryCount
          /\ pc' # "loop"
          /\ idx' = idx + 1
     /\ gotoCount' > gotoCount => RecordsFor(idx) = {}]_vars

\* the third attempt for a URL, after two that threw, was classified as not
\* a product page
C15_Witness ==
  /\ retryCount = 2
  /\ gotoCount = 3
  /\ Len(results) > 0
  /\ results[Len(results)] = NonProductRecord(Len(results))
  /\ pc \in {"url", "close"}

\* C16: the stored stock status follows strict precedence over the signals
\* of the page: a sold-out phrase anywhere in the page or in the stock text
\* gives out_of_stock and no quantity; otherwise an in-stock phrase gives
\* in_stock; otherwise a disabled purchase control gives out_of_stock;
\* otherwise unknown. The platform stock label is one of the texts.
SoldOutSignal(p) == BodyPhrases(p) \cap AgotadoTexts # {}
InStockSignal(p) == BodyPhrases(p) \cap DisponibleTexts # {}

StatusByPrecedence(p) ==
  IF SoldOutSignal(p) THEN "out_of_stock"
  ELSE IF InStockSignal(p) THEN "in_stock"
  ELSE IF p.disabled THEN "out_of_stock"
  ELSE "unknown"

C16_StockPrecedence ==
  normalizedProduct.normalized =>
    /\ normalizedProduct.status = StatusByPrecedence(page)
    /\ SoldOutSignal(page) => normalizedProduct.quantity = Null

\* C17: a non-product record (deny-list or classifier) is not an error: the
\* pass of the store loop over it leaves the error count and the error
\* details of the domain as they are.
C17_NonProductNotAnError ==
  [][(pc = "store" /\ results[sj].kind = "nonproduct") =>
       /\ domErrorCount' = domErrorCount
       /\ errorDetails' = errorDetails]_vars

\* C18: for a domain whose session returned its result list, a failure of
\* the store on one product adds exactly one to the error count of the
\* domain and the loop goes on to the next record; the completed scrape-log
\* entry has processed count + error count = number of URLs of the batch.
StoreFailed ==
  /\ pc = "store"
  /\ calls' = calls + 1
  /\ ~lastCall'.ok

C18_StoreFailureCountedOnce ==
  [][/\ StoreFailed =>
          /\ domErrorCount' = domErrorCount + 1
          /\ domSuccessCount' = domSuccessCount
          /\ sj' = sj + 1
          /\ pc' = IF sj < Len(results) THEN "store" ELSE "log"
     /\ (pc = "store" /\ pc' = "log") => sj' = Len(results) + 1
     /\ (Len(logs') = Len(logs) + 1
           /\ logs'[Len(logs')].status = "completed") =>
          logs'[Len(logs')].products_processed
            + logs'[Len(logs')].errors_count = Len(batch[dom])]_vars

\* a completed entry of a domain of two products: the store failed on the
\* first, the second was stored
C18_Witness ==
  \E n \in 1..Len(logs) :
    /\ logs[n].status = "completed"
    /\ logs[n].products_processed = 1
    /\ logs[n].errors_count = 1
    /\ logs[n].error_details = << <<1, "storeError">> >>

\* C19: cleanPrice applied to what cleanPrice returned returns it unchanged.
C19_CleanPriceIdempotent ==
  cleaned.times = 2 => cleaned.text = cleanPrice(priceText)

\* C20: the stored price is absent or a non-negative number that comes from
\* a price found in the page; the "$0" sentinel of a page without a price
\* and the "No disponible (Agotado)" marker never become a number.
C20_PlaceholderNeverNumeric ==
  normalizedProduct.normalized =>
    /\ normalizedProduct.current_price = Null
         \/ normalizedProduct.current_price >= 0
    /\ Trim(page.priceText) = <<>> => normalizedProduct.current_price = Null
    /\ productData.price = UnavailableMarker =>
         normalizedProduct.current_price = Null

\* C21: a sitemap that fails to load or to parse contributes no URL; in an
\* index, only the sub-sitemaps that fail are dropped, the others contribute
\* their URLs in order; every sitemap resolved so far, after a failure or not,
\* contributed what its strategy retains, and the collected list is the
\* concatenation of the contributions.
C21_SitemapFailureIsolated ==
  LET Flat(lists) ==
        LET acc[n \in 0..Len(lists)] ==
              IF n = 0 THEN <<>> ELSE acc[n - 1] \o lists[n]
        IN  acc[Len(lists)]
      Working(sitemap) ==
        SelectSeq(sitemap.subs,
                  LAMBDA sub : sub.loc = "product" /\ sub.fetch = "ok")
  IN  /\ Len(found) = si - 1
      /\ \A i \in 1..Len(found) :
           LET sitemap == sitemaps[i] IN
             /\ sitemap.fetch = "fails" => found[i] = <<>>
             /\ sitemap.fetch = "ok" /\ sitemap.index =>
                  found[i] = Flat([n \in 1..Len(Working(sitemap)) |->
                                     Working(sitemap)[n].urls])
             /\ sitemap.fetch = "ok" /\ ~sitemap.index =>
                  found[i] = IF sitemap.platform = "jumpseller"
                               THEN processJumpSellerSitemap(sitemap.urls)
                               ELSE processDirectSitemap(sitemap.urls)
      /\ allProductUrls = Flat(found)

\* a failed sitemap is followed by an index in which one product sub-sitemap
\* fails and the next one contributes
C21_Witness ==
  /\ Len(found) = 2
  /\ sitemaps[1].fetch = "fails"
  /\ sitemaps[2].index
  /\ sitemaps[2].fetch = "ok"
  /\ Len(sitemaps[2].subs) = 2
  /\ sitemaps[2].subs[1].loc = "product"
  /\ sitemaps[2].subs[1].fetch = "fails"
  /\ found[2] = sitemaps[2].subs[2].urls
  /\ allProductUrls = found[2]

\* the URLs of the JumpSeller sitemaps resolved so far, each with whether it
\* was retained
JumpSellerUrls ==
  {[url |-> sitemaps[i].urls[n], retained |-> Includes(found[i], sitemaps[i].urls[n])] :
     i \in {j \in 1..Len(found) : /\ sitemaps[j].fetch = "ok"
                                  /\ ~sitemaps[j].index
                                  /\ sitemaps[j].platform = "jumpseller"
                                  /\ Len(sitemaps[j].urls) = 1},
     n \in {1}}

\* the path of a URL as written in the sitemap: its segments, and whether it
\* is one of the three kinds the heuristic accepts
SegmentsOf(url) ==
  {n \in 1..Len(url) : url[n] # "/" /\ (n = 1 \/ url[n - 1] = "/")}
LooksLikeProduct(url) ==
  \/ Cardinality(SegmentsOf(url)) >= 2
  \/ Includes(url, "-")
  \/ Includes(url, "1")
SingleSegmentOf(url, letters) ==
  /\ Cardinality(SegmentsOf(url)) = 1
  /\ \A n \in 1..Len(url) : url[n] \in letters \cup {"/"}

\* C22 (as stated): under the JumpSeller strategy every URL whose path has at
\* least 2 segments, or a hyphen, or a digit is retained, and every URL whose
\* path is a single purely alphabetic segment is dropped.
C22_HeuristicDecides ==
  \A u \in JumpSellerUrls :
    /\ LooksLikeProduct(u.url) => u.retained
    /\ SingleSegmentOf(u.url, {"a", "ntilde", "contact", "pages", "acero"})
         => ~u.retained

\* C22 (amended): under the JumpSeller strategy every URL that does not match
\* the deny-list and whose path has at least 2 segments, or a hyphen, or a
\* digit is retained, and every URL whose path is a single segment of ASCII
\* letters is dropped.
C22_HeuristicDecidesAfterDenyList ==
  \A u \in JumpSellerUrls :
    /\ ~JumpSellerDenied(u.url) /\ LooksLikeProduct(u.url) => u.retained
    /\ SingleSegmentOf(u.url, {"a", "contact", "pages", "acero"})
         => ~u.retained

\* a one-segment URL with a hyphen, off the deny-list, was retained
C22_Witness ==
  \E u \in JumpSellerUrls :
    /\ u.url = <<"/", "a", "-", "a">>
    /\ ~JumpSellerDenied(u.url)
    /\ u.retained

\* the sum of the weights of the signals present
WeightOf(present) ==
  Cardinality({signal \in present : Weights[signal] = 1})
  + 2 * Cardinality({signal \in present : Weights[signal] = 2})
  + 3 * Cardinality({signal \in present : Weights[signal] = 3})

\* C23: the verdict of every call is true if and only if the weights of the
\* signals present on the page sum to at least 3, and a call made after one
\* more signal appeared does not turn a true verdict into false nor see a
\* lower score.
C23_VerdictIsScoreAtLeastThree ==
  /\ \A n \in 1..Len(verdicts) :
       verdicts[n].product <=> WeightOf(verdicts[n].signals) >= 3
  /\ Len(verdicts) = 2 =>
       /\ WeightOf(verdicts[2].signals) >= WeightOf(verdicts[1].signals)
       /\ verdicts[1].product => verdicts[2].product

\* the number of whole-word occurrences in the searched text of the keywords
\* of a list: a keyword between spaces or the ends of the text
WholeWords(keywords) ==
  Cardinality({n \in 1..Len(searchText) :
                 /\ \E k \in 1..Len(keywords) : searchText[n] = keywords[k]
                 /\ n = 1 \/ searchText[n - 1] = " "
                 /\ n = Len(searchText) \/ searchText[n + 1] = " "})

\* the categories and subcategories the claim expects, each with its
\* identifier, its count and its place in the order of discovery
Scored ==
  LET tops == {c \in 1..Len(CATEGORY_RULES) :
                 WholeWords(CATEGORY_RULES[c].keywords) > 0}
  IN  {[id |-> CATEGORY_RULES[c].key,
        score |-> WholeWords(CATEGORY_RULES[c].keywords),
        place |-> 3 * c] : c \in tops}
      \cup
      UNION {{[id |-> CATEGORY_RULES[c].key \o "_"
                        \o CATEGORY_RULES[c].subcategories[k].key,
               score |->
                 WholeWords(CATEGORY_RULES[c].subcategories[k].keywords),
               place |-> 3 * c + k] :
                k \in {j \in 1..2 :
                         WholeWords(
                           CATEGORY_RULES[c].subcategories[j].keywords) > 0}} :
             c \in tops}

\* C24: the classifier returns the sentinel "others" if and only if no
\* top-level category has a positive count of whole-word keyword occurrences;
\* otherwise it returns each positively scored category and each positively
\* scored subcategory of such a category, once, by descending score, ties in
\* the order of discovery.
C24_CategoriesByScore ==
  detectedCategories # <<>> =>
    IF Scored = {}
      THEN detectedCategories = <<"others">>
      ELSE /\ {detectedCategories[n] : n \in 1..Len(detectedCategories)}
                = {e.id : e \in Scored}
           /\ Len(detectedCategories) = Cardinality(Scored)
           /\ \A m, n \in 1..Len(detectedCategories) :
                m < n =>
                  LET a == CHOOSE e \in Scored : e.id = detectedCategories[m]
                      b == CHOOSE e \in Scored : e.id = detectedCategories[n]
                  IN  \/ a.score > b.score
                      \/ a.score = b.score /\ a.place < b.place

\* C30: every identifier the classifier returns is the slug of a category
\* that ensureCategories creates.
C30_DetectedCategoriesAreSlugs ==
  \A n \in 1..Len(detectedCategories) :
    detectedCategories[n] \in ensureCategories

\* the URL whose record was appended last, when the session is between two
\* URLs or past the last one
LastUrl == Len(results)
BetweenUrls == pc \in {"url", "close"} /\ LastUrl >= 1

\* C25: a URL of the batch that matches the deny-list gets one non-product
\* record and no navigation (no page load, no retry), and the inter-request
\* delay was awaited before it exactly when it is not the first of the batch.
C25_DenyListedUrlNotNavigated ==
  BetweenUrls /\ batch[dom][LastUrl] = "deny" =>
    /\ results[LastUrl] = NonProductRecord(LastUrl)
    /\ Cardinality(RecordsFor(LastUrl)) = 1
    /\ gotoCount = 0
    /\ retryCount = 0
    /\ delayed = (LastUrl > 1)

\* the second URL of a batch is on the deny-list and has been recorded
C25_Witness ==
  /\ BetweenUrls
  /\ LastUrl = 2
  /\ batch[dom][2] = "deny"
  /\ batch[dom][1] = "page"
  /\ delayed

\* whether the session of the domain has ended: it returned its list, or it
\* threw after the browser was launched
SessionEnded ==
  \/ SessionReturned
  \/ pc = "logFailed" /\ failure \in {"contextError", "closeError"}

\* C26: when a session that launched its browser has ended, with a result
\* list or with a failure, the browser is closed.
C26_BrowserClosedAtSessionEnd ==
  SessionEnded => ~browserOpen[dom]

C28_OneRunAtATime ==
  Cardinality({r \in DOMAIN runs : runs[r] = "running"}) <= 1

\* C29: whenever the stored current price of a product is a number, the
\* price-history row appended last for that product holds the same price.
C29_ProductAgreesWithHistory ==
  \A k \in Keys :
    products[k] \notin {NoRow, Null} =>
      LET rows == SelectSeq(history, LAMBDA row : row.key = k)
      IN  rows # <<>> /\ rows[Len(rows)].price = products[k]

\* C8: waiters are released in the order in which they were appended to the
\* wait list, and each completion releases exactly the head of the list.
Resumes == SelectSeq(microtasks, LAMBDA j : j.kind = "resume")

\* the tasks that wait, oldest first: those already notified, then the queue
WaitOrder == [i \in 1..Len(Resumes) |-> Resumes[i].task] \o queue

Completes(t) == st[t] = "finished" /\ st'[t] = "settled"

C8_FifoRelease ==
  [][/\ \/ WaitOrder' = WaitOrder
        \/ \E t \in Tasks :
             st[t] \in {"idle", "delivered"} /\ WaitOrder' = Append(WaitOrder, t)
        \/ /\ WaitOrder # <<>>
           /\ WaitOrder' = Tail(WaitOrder)
           /\ st'[Head(WaitOrder)] = "running"
     /\ \A t \in Tasks :
          Completes(t) =>
            IF queue = <<>>
              THEN queue' = <<>> /\ Resumes' = Resumes
              ELSE /\ queue' = Tail(queue)
                   /\ Resumes' = Append(Resumes, ResumeJob(Head(queue)))
                   /\ st'[Head(queue)] = "released"]_vars

\* a waiter has been notified while another one still waits behind it
C8_Witness ==
  /\ Len(Resumes) >= 1
  /\ Len(queue) >= 1

\* C9: when a task run through the queue throws, its slot is released and the
\* head waiter, if any, is notified before the error reaches the caller of
\* add; the caller then receives that same error.
JobIndex(jobs, j) == CHOOSE i \in 1..Len(jobs) : jobs[i] = j

C9_ThrowReleasesThenPropagates ==
  [][\A t \in Tasks :
       /\ (Completes(t) /\ outcome[t] # "ok") =>
            /\ running' = running - 1
            /\ \E i \in 1..Len(microtasks') : microtasks'[i] = SettleJob(t)
            /\ seen'[t] = "none"
            /\ queue # <<>> =>
                 /\ \E i \in 1..Len(microtasks') :
                      microtasks'[i] = ResumeJob(Head(queue))
                 /\ JobIndex(microtasks', ResumeJob(Head(queue)))
                      < JobIndex(microtasks', SettleJob(t))
       /\ (seen[t] = "none" /\ seen'[t] # "none") =>
            /\ st[t] = "settled"
            /\ seen'[t] = outcome[t]]_vars

\* a task has thrown with a waiter in the list: the waiter is notified and
\* the error has not reached the caller yet
C9_Witness ==
  \E t \in Tasks :
    /\ st[t] = "settled"
    /\ outcome[t] = ErrorOf(t)
    /\ seen[t] = "none"
    /\ \E u \in Tasks : st[u] = "released"

\* C10: at most one evaluation takes effect in any 30-second window, so the
\* bound changes by at most 1 per window: a change of the bound comes at
\* least 30 s after the evaluation before it.
C10_OneEvaluationPerWindow ==
  [][currentConcurrent' # currentConcurrent =>
       clock - lastAdjustment >= AdjustWindow]_vars

====
